---- MODULE Spec2Model ----
(***************************************************************************)
(* Model of chunyangfeng/celebi:                                           *)
(*   - the migration-file synchronisation command (syncmigrate: save,      *)
(*     load, initial) over a file system and the MigrationsHistory table;  *)
(*   - the CRUD view mixins (list / create / update / destroy hook chains  *)
(*     inside a database transaction) and the paginate function;           *)
(*   - the overridden migrate command and the construction of a            *)
(*     single-argument command;                                            *)
(*   - the serializer cache, the authentication / permission dispatch and  *)
(*     the cleaning of query parameters.                                   *)
(*                                                                         *)
(* Text is modelled at the granularity the code inspects it:               *)
(*   - a path string is the sequence of its os.sep-separated components,   *)
(*     and a component is the sequence of its "."-separated segments, so   *)
(*     "/srv/my.site/blog" is << <<"">>, <<"srv">>, <<"my","site">>,       *)
(*     <<"blog">> >> (an absolute path starts with the empty component);   *)
(*   - a file's content is a sequence of characters, "\n" among them.      *)
(***************************************************************************)
EXTENDS Integers, Sequences, FiniteSets, TLC

-----------------------------------------------------------------------------
(* Bounds of the model.                                                    *)

\* number of file-system changes made around the command (makemigrations
\* runs, hand edits) in one behaviour
MaxEdits == 2

\* longest content, in characters, of a file written around the command
MaxContentLen == 2

\* largest size of the filtered result set of a list request
MaxTotal == 3

\* largest number sent as page or limit
MaxPageArg == 3

\* largest number of rows of the resource table
MaxRows == 2

\* number of distinct objects, besides None, handed to the serializer cache
MaxObjects == 2

\* longest action_choice of a command class
MaxChoices == 3

\* longest query-parameter text handed to _clear_query_params, in pieces
MaxStrLen == 3

-----------------------------------------------------------------------------
(* Generic helpers.                                                        *)

Last(s) == s[Len(s)]

Front(s) == SubSeq(s, 1, Len(s) - 1)

RECURSIVE SeqsUpTo(_, _)
\* all sequences over S of length at most n
SeqsUpTo(S, n) ==
    IF n = 0 THEN {<<>>}
    ELSE LET shorter == SeqsUpTo(S, n - 1)
         IN  shorter \cup {Append(s, x) : s \in shorter, x \in S}

RECURSIVE Concat(_)
\* concatenation of a sequence of sequences
Concat(ss) == IF ss = <<>> THEN <<>> ELSE Head(ss) \o Concat(Tail(ss))

-----------------------------------------------------------------------------
(* Paths: os.path and str operations used by the command.                  *)

\* os.path.isabs on a POSIX path: the string starts with os.sep
IsAbs(p) == Len(p) > 0 /\ p[1] = <<"">>

\* os.path.join(a, b): an absolute b discards a
OsPathJoin(a, b) == IF IsAbs(b) THEN b ELSE a \o b

\* os.sep.join(app.split(".")): a dotted application name as a relative path
AppPath(app) == [i \in 1..Len(app) |-> <<app[i]>>]

\* number of the first component that contains a "." (0 when none does)
FirstDotted(p) ==
    IF \E i \in 1..Len(p) : Len(p[i]) > 1
    THEN CHOOSE i \in 1..Len(p) :
            /\ Len(p[i]) > 1
            /\ \A j \in 1..(i - 1) : Len(p[j]) = 1
    ELSE 0

\* os.path.splitext(p)[0]: the path with the extension of its last component removed
PathStem(p) ==
    IF Len(Last(p)) > 1 THEN Append(Front(p), Front(Last(p))) ELSE p

\* file.split(".")[0]: the part of the string before its first "."
SplitDot0(p) ==
    LET i == FirstDotted(p)
    IN  IF i = 0 THEN p ELSE Append(SubSeq(p, 1, i - 1), <<p[i][1]>>)

\* f"{name}.py": the string with ".py" appended
WithPy(p) == Append(Front(p), Append(Last(p), "py"))

\* file.split(".")[-1]: the part of the string after its last "."
SplitDotLast(name) == Last(name)

-----------------------------------------------------------------------------
(* Settings and the state of the synchronisation command.                  *)

\* settings.BASE_DIR of a deployment: "/srv/proj" or "/srv/my.site"
BaseDirs == { << <<"">>, <<"srv">>, <<"proj">> >>,
              << <<"">>, <<"srv">>, <<"my", "site">> >> }

\* settings.INSTALLED_APPS; django.contrib.auth lies outside the base directory
INSTALLED_APPS == << <<"django", "contrib", "auth">>, <<"blog">>, <<"shop", "api">> >>

\* the applications of the project itself, which live under BASE_DIR
ProjectApps == { <<"blog">>, <<"shop", "api">> }

migrations_dir_name == << <<"migrations">> >>

InitPy == <<"__init__", "py">>

\* names of the migration files written into a migrations directory
MigrationNames == { <<"0001_initial", "py">>, <<"0002_auto", "py">> }

\* a compiled module, which save skips
CompiledName == <<"0001_initial", "pyc">>

Chars == {"a", "\n"}

Contents == SeqsUpTo(Chars, MaxContentLen)

\* '# coding:utf-8\n', the text before the line break taken as one character
CodingHeader == <<"# coding:utf-8", "\n">>

VARIABLES
    base_dir,   \* settings.BASE_DIR
    dirs,       \* the directories of the file system (set of paths)
    files,      \* the regular files, in directory order: <<[path, content]>>
    store,      \* the rows of MigrationsHistory in id order
    last_op,    \* the command that ran last and how it ended
    edits       \* number of file-system changes made so far

syncVars == <<base_dir, dirs, files, store, last_op, edits>>

VARIABLES
    req,          \* the request handled last
    stages,       \* the stages of the hook chain that ran for it, in order
    rollback,     \* transaction.set_rollback(True) was called
    txn,          \* how the transaction.atomic block ended
    resp,         \* what the handler returned or raised
    page_result,  \* what paginate returned or raised (list requests)
    table         \* the rows of the resource table (committed state)

viewVars == <<req, stages, rollback, txn, resp, page_result, table>>

VARIABLES
    context,     \* BasicCommonModelSerializer.context, the dictionary behind the cache
    cache_log,   \* the value last passed to set_cache for each (key, salt)
    cache_ret,   \* the last get_cache call and what it returned
    dispatched,  \* the last dispatch call: the view, the calls made, the response
    command,     \* the last command class constructed and what __new__ did
    cleaned      \* the last _clear_query_params call and what it returned

utilVars == <<context, cache_log, cache_ret, dispatched, command, cleaned>>

vars == <<syncVars, viewVars, utilVars>>

-----------------------------------------------------------------------------
(* The file system.                                                        *)

FilePaths(F) == {F[i].path : i \in 1..Len(F)}

\* os.path.exists
Exists(D, F, p) == p \in D \/ p \in FilePaths(F)

FileContent(F, p) == F[CHOOSE i \in 1..Len(F) : F[i].path = p].content

\* the top-level file names of directory d (os.walk(d)[0][2]), in directory order
ListFiles(F, d) ==
    LET inDir(e) == Len(e.path) = Len(d) + 1 /\ Front(e.path) = d
        sel == SelectSeq(F, inDir)
    IN  [i \in 1..Len(sel) |-> Last(sel[i].path)]

\* open(p, "w") ... write(c): create or truncate p, then write c
WriteFile(F, p, c) ==
    IF p \in FilePaths(F)
    THEN [i \in 1..Len(F) |-> IF F[i].path = p THEN [path |-> p, content |-> c] ELSE F[i]]
    ELSE Append(F, [path |-> p, content |-> c])

RECURSIVE ReadLinesFrom(_, _)
ReadLinesFrom(c, cur) ==
    IF c = <<>> THEN (IF cur = <<>> THEN <<>> ELSE <<cur>>)
    ELSE IF Head(c) = "\n"
         THEN <<Append(cur, "\n")>> \o ReadLinesFrom(Tail(c), <<>>)
         ELSE ReadLinesFrom(Tail(c), Append(cur, Head(c)))

\* f.readlines(): the lines of the text, each with its line break
ReadLines(c) == ReadLinesFrom(c, <<>>)

-----------------------------------------------------------------------------
(* json.dumps / json.loads of a list of strings, as a token sequence.      *)

JsonTok(t, v) == [t |-> t, v |-> v]

RECURSIVE JsonItems(_)
JsonItems(lines) ==
    IF lines = <<>> THEN <<>>
    ELSE IF Len(lines) = 1 THEN <<JsonTok("str", lines[1])>>
    ELSE <<JsonTok("str", lines[1]), JsonTok(",", <<>>)>> \o JsonItems(Tail(lines))

json_dumps(lines) == <<JsonTok("[", <<>>)>> \o JsonItems(lines) \o <<JsonTok("]", <<>>)>>

json_loads(toks) ==
    LET isStr(tok) == tok.t = "str"
        strs == SelectSeq(toks, isStr)
    IN  [i \in 1..Len(strs) |-> strs[i].v]

-----------------------------------------------------------------------------
(* syncmigrate.Command                                                     *)

\* the application's directory exists under the base directory
AppUnderBase(base, D, F, app) == Exists(D, F, OsPathJoin(base, AppPath(app)))

\* get_app_migrations_dir: <<[app, path]>> in INSTALLED_APPS order, for the
\* applications whose directory exists under BASE_DIR
get_app_migrations_dir(base, D, F) ==
    LET found(app) == AppUnderBase(base, D, F, app)
        apps == SelectSeq(INSTALLED_APPS, found)
    IN  [i \in 1..Len(apps) |->
            [app  |-> AppPath(apps[i]),
             path |-> OsPathJoin(OsPathJoin(base, AppPath(apps[i])), migrations_dir_name)]]

\* get_app_migrations_file: the paths of the directory's top-level files other
\* than __init__.py and *.pyc; list.remove raises ValueError without __init__.py
get_app_migrations_file(D, F, path) ==
    IF ~Exists(D, F, path) THEN [err |-> "", list |-> <<>>]
    ELSE LET file_list == ListFiles(F, path)
             keep(file) == ~(file = InitPy \/ SplitDotLast(file) = "pyc")
             kept == SelectSeq(file_list, keep)
         IN  IF \A i \in 1..Len(file_list) : file_list[i] # InitPy
             THEN [err |-> "ValueError", list |-> <<>>]
             ELSE [err |-> "",
                   list |-> [i \in 1..Len(kept) |-> OsPathJoin(path, <<kept[i]>>)]]

\* the rows of the table with the given key
Matching(st, app, file_name) ==
    {i \in 1..Len(st) : st[i].app_name = app /\ st[i].file_name = file_name}

\* a faulty variant of get_or_create: a plain create
get_or_create_always(st, app, file_name, file_content) ==
    [store  |-> Append(st, [app_name |-> app, file_name |-> file_name,
                            file_content |-> file_content]),
     status |-> TRUE, err |-> ""]

\* a faulty variant of get_or_create: an update_or_create
get_or_create_update(st, app, file_name, file_content) ==
    IF Matching(st, app, file_name) = {}
    THEN get_or_create_always(st, app, file_name, file_content)
    ELSE [store  |-> [i \in 1..Len(st) |->
                        IF i \in Matching(st, app, file_name)
                        THEN [st[i] EXCEPT !.file_content = file_content]
                        ELSE st[i]],
          status |-> FALSE, err |-> ""]

\* MigrationsHistory.objects.get_or_create(app_name=, file_name=, defaults=)
get_or_create(st, app, file_name, file_content) ==
    LET n == Cardinality(Matching(st, app, file_name))
    IN  IF n = 0
        THEN [store  |-> Append(st, [app_name |-> app, file_name |-> file_name,
                                     file_content |-> file_content]),
              status |-> TRUE, err |-> ""]
        ELSE IF n = 1
        THEN [store |-> st, status |-> FALSE, err |-> ""]
        ELSE [store |-> st, status |-> FALSE, err |-> "MultipleObjectsReturned"]

\* the record save makes of one file: key and serialized lines
SaveKey(file) == SplitDot0(file)

SaveContent(F, file) == json_dumps(ReadLines(FileContent(F, file)))

RECURSIVE SaveFiles(_, _, _, _)
\* the inner loop of save over the files of one application
SaveFiles(st, F, app, file_list) ==
    IF file_list = <<>> THEN [store |-> st, err |-> ""]
    ELSE LET file == Head(file_list)
             r == get_or_create(st, app, SaveKey(file), SaveContent(F, file))
         IN  IF r.err # "" THEN [store |-> r.store, err |-> r.err]
             ELSE SaveFiles(r.store, F, app, Tail(file_list))

RECURSIVE SaveApps(_, _, _, _)
\* the outer loop of save over the applications
SaveApps(st, D, F, app_dirs) ==
    IF app_dirs = <<>> THEN [store |-> st, err |-> ""]
    ELSE LET fl == get_app_migrations_file(D, F, Head(app_dirs).path)
         IN  IF fl.err # "" THEN [store |-> st, err |-> fl.err]
             ELSE LET r == SaveFiles(st, F, Head(app_dirs).app, fl.list)
                  IN  IF r.err # "" THEN r
                      ELSE SaveApps(r.store, D, F, Tail(app_dirs))

\* the store after save, and the exception that ended it ("" when none)
SaveResult(st, base, D, F) == SaveApps(st, D, F, get_app_migrations_dir(base, D, F))

Outcome(err) == IF err = "" THEN "ok" ELSE err

\* Command.save
save ==
    LET r == SaveResult(store, base_dir, dirs, files)
    IN  /\ store' = r.store
        /\ last_op' = [op |-> "save", result |-> Outcome(r.err)]
        /\ UNCHANGED <<base_dir, dirs, files, edits, viewVars, utilVars>>

\* the file load writes for a record, and the text it writes
LoadTarget(path, rec) == OsPathJoin(path, WithPy(rec.file_name))

LoadText(rec) == CodingHeader \o Concat(json_loads(rec.file_content))

\* open(target, "w") fails when the parent directory is missing or the
\* target is a directory
OpenError(D, target) ==
    IF Front(target) \notin D THEN "FileNotFoundError"
    ELSE IF target \in D THEN "IsADirectoryError"
    ELSE ""

RECURSIVE LoadRecords(_, _, _, _)
\* the inner loop of load over the records of one application
LoadRecords(D, F, path, recs) ==
    IF recs = <<>> THEN [files |-> F, err |-> ""]
    ELSE LET target == LoadTarget(path, Head(recs))
             e == OpenError(D, target)
         IN  IF e # "" THEN [files |-> F, err |-> e]
             ELSE LoadRecords(D, WriteFile(F, target, LoadText(Head(recs))), path, Tail(recs))

\* MigrationsHistory.objects.filter(app_name=app), in id order
FilterApp(st, app) ==
    LET ofApp(rec) == rec.app_name = app
    IN  SelectSeq(st, ofApp)

RECURSIVE LoadApps(_, _, _, _)
\* the outer loop of load over the applications
LoadApps(st, D, F, app_dirs) ==
    IF app_dirs = <<>> THEN [dirs |-> D, files |-> F, err |-> ""]
    ELSE LET path == Head(app_dirs).path
             D1 == D \cup {path}
             F1 == WriteFile(F, OsPathJoin(path, <<InitPy>>), <<>>)
             r == LoadRecords(D1, F1, path, FilterApp(st, Head(app_dirs).app))
         IN  IF r.err # "" THEN [dirs |-> D1, files |-> r.files, err |-> r.err]
             ELSE LoadApps(st, D1, r.files, Tail(app_dirs))

\* the file system after load, and the exception that ended it ("" when none)
LoadResult(st, base, D, F) == LoadApps(st, D, F, get_app_migrations_dir(base, D, F))

\* Command.load
load ==
    LET r == LoadResult(store, base_dir, dirs, files)
    IN  /\ dirs' = r.dirs
        /\ files' = r.files
        /\ last_op' = [op |-> "load", result |-> Outcome(r.err)]
        /\ UNCHANGED <<base_dir, store, edits, viewVars, utilVars>>

\* a faulty variant of initial: an initial that empties the table
initial_reset ==
    /\ store' = <<>>
    /\ last_op' = [op |-> "initial", result |-> "ok"]
    /\ UNCHANGED <<base_dir, dirs, files, edits, viewVars, utilVars>>

\* Command.initial
initial ==
    /\ last_op' = [op |-> "initial", result |-> "ok"]
    /\ UNCHANGED <<base_dir, dirs, store, files, edits, viewVars, utilVars>>

-----------------------------------------------------------------------------
(* management/base.py: SingleArgBaseCommand.__new__                        *)

\* syncmigrate.Command.action_choice
action_choice == <<"save", "load", "initial">>

\* the names a command class may list or define
ActionNames == {"save", "load", "initial", "sync"}

\* the actions syncmigrate.Command defines as methods
SyncCommandClass == [action_choice |-> action_choice, attrs |-> {"save", "load", "initial"}]

\* command classes: the declared action_choice and, of the names, those the
\* class has an attribute for
CommandClasses == [action_choice : SeqsUpTo(ActionNames, MaxChoices), attrs : SUBSET ActionNames]

\* a faulty variant of error_list_of: the check stops at the first undefined name
error_list_first(cls) ==
    LET undefined(choice) == choice \notin cls.attrs
        all == SelectSeq(cls.action_choice, undefined)
    IN  IF all = <<>> THEN <<>> ELSE <<Head(all)>>

\* the loop of __new__: the names of action_choice, in order, for which
\* getattr(cls, choice) raises AttributeError
error_list_of(cls) ==
    LET undefined(choice) == choice \notin cls.attrs
    IN  SelectSeq(cls.action_choice, undefined)

\* SingleArgBaseCommand.__new__(cls): AttributeError carrying error_list, or
\* the new instance
new_of(cls) ==
    LET error_list == error_list_of(cls)
    IN  IF Len(error_list) > 0
        THEN [exc |-> "AttributeError", message |-> error_list, instance |-> FALSE]
        ELSE [exc |-> "", message |-> <<>>, instance |-> TRUE]

\* the class cls before it is instantiated
Loaded(cls) ==
    [constructed |-> FALSE, cls |-> cls,
     result |-> [exc |-> "", message |-> <<>>, instance |-> FALSE]]

\* the loaded command class is instantiated
SingleArgBaseCommand_new ==
    /\ command' = [constructed |-> TRUE, cls |-> command.cls, result |-> new_of(command.cls)]
    /\ UNCHANGED <<context, cache_log, cache_ret, dispatched, cleaned, syncVars, viewVars>>

CommandNext == SingleArgBaseCommand_new

-----------------------------------------------------------------------------
(* management/commands/migrate.py: the overridden migrate command.         *)

\* the modules of the project's management package, by dotted name: the
\* package is named app (syncmigrate.py itself imports app.management.base,
\* app.models and app.utils.formatter)
ProjectModules ==
    {"app.management.base", "app.management.commands.migrate",
     "app.management.commands.syncmigrate"}

\* the module name migrate.py hands to importlib.import_module
SyncModuleName == "common.management.commands.syncmigrate"

\* importlib.import_module(name): the exception it raises ("" when none)
import_module(name) == IF name \in ProjectModules THEN "" ELSE "ModuleNotFoundError"

\* migrate.Command.handle: the framework's migrate, then the import of the
\* sync command, its construction and save()
migrate_handle(framework_ok, st, base, D, F) ==
    IF ~framework_ok THEN [store |-> st, err |-> "MigrateError"]
    ELSE IF import_module(SyncModuleName) # ""
    THEN [store |-> st, err |-> import_module(SyncModuleName)]
    ELSE IF new_of(SyncCommandClass).exc # ""
    THEN [store |-> st, err |-> new_of(SyncCommandClass).exc]
    ELSE SaveResult(st, base, D, F)

\* manage.py migrate
migrate ==
    \E framework_ok \in BOOLEAN :
        LET r == migrate_handle(framework_ok, store, base_dir, dirs, files)
        IN  /\ store' = r.store
            /\ last_op' = [op |-> "migrate", result |-> Outcome(r.err)]
            /\ UNCHANGED <<base_dir, dirs, files, edits, viewVars, utilVars>>

-----------------------------------------------------------------------------
(* The project around the command: files appear, change and disappear in   *)
(* the migrations directories between two runs of the command.             *)

MigrationsDir(base, app) == OsPathJoin(OsPathJoin(base, AppPath(app)), migrations_dir_name)

\* the prefixes of a path: the directories above it and itself
Ancestors(p) == {SubSeq(p, 1, n) : n \in 1..Len(p)}

\* the directories of a freshly created project
ProjectDirs(base) ==
    UNION {Ancestors(OsPathJoin(base, AppPath(app))) : app \in ProjectApps}

\* makemigrations or a developer writes a file into an application's
\* migrations package, creating the package when it is missing
WriteMigration(app, name, content) ==
    LET d == MigrationsDir(base_dir, app)
        F1 == IF d \in dirs THEN files ELSE WriteFile(files, OsPathJoin(d, <<InitPy>>), <<>>)
    IN  /\ edits < MaxEdits
        /\ edits' = edits + 1
        /\ dirs' = dirs \cup {d}
        /\ files' = WriteFile(F1, OsPathJoin(d, <<name>>), content)
        /\ last_op' = [op |-> "edit", result |-> "ok"]
        /\ UNCHANGED <<base_dir, store, viewVars, utilVars>>

\* the interpreter leaves a compiled file next to a migration file
WriteCompiled(app) ==
    LET d == MigrationsDir(base_dir, app)
    IN  /\ edits < MaxEdits
        /\ d \in dirs
        /\ edits' = edits + 1
        /\ files' = WriteFile(files, OsPathJoin(d, <<CompiledName>>), <<>>)
        /\ last_op' = [op |-> "edit", result |-> "ok"]
        /\ UNCHANGED <<base_dir, dirs, store, viewVars, utilVars>>

\* a developer deletes the package marker of a migrations directory
RemoveInit(app) ==
    LET p == OsPathJoin(MigrationsDir(base_dir, app), <<InitPy>>)
        keep(e) == e.path # p
    IN  /\ edits < MaxEdits
        /\ p \in FilePaths(files)
        /\ edits' = edits + 1
        /\ files' = SelectSeq(files, keep)
        /\ last_op' = [op |-> "edit", result |-> "ok"]
        /\ UNCHANGED <<base_dir, dirs, store, viewVars, utilVars>>

\* a developer deletes an application's migrations directory
RemoveMigrations(app) ==
    LET d == MigrationsDir(base_dir, app)
        keep(e) == Front(e.path) # d
    IN  /\ edits < MaxEdits
        /\ d \in dirs
        /\ edits' = edits + 1
        /\ dirs' = dirs \ {d}
        /\ files' = SelectSeq(files, keep)
        /\ last_op' = [op |-> "edit", result |-> "ok"]
        /\ UNCHANGED <<base_dir, store, viewVars, utilVars>>

Edit ==
    \/ \E app \in ProjectApps, name \in MigrationNames, content \in Contents :
          WriteMigration(app, name, content)
    \/ \E app \in ProjectApps : WriteCompiled(app)
    \/ \E app \in ProjectApps : RemoveInit(app)
    \/ \E app \in ProjectApps : RemoveMigrations(app)

\* the project is deployed under another base directory: a fresh checkout
\* of the applications without their migrations, next to the old tree on the
\* same host or alone on a new host; the database is shared
Redeploy ==
    \E new \in BaseDirs \ {base_dir}, same_host \in BOOLEAN :
        /\ edits < MaxEdits
        /\ edits' = edits + 1
        /\ base_dir' = new
        /\ dirs' = (IF same_host THEN dirs ELSE {}) \cup ProjectDirs(new)
        /\ files' = IF same_host THEN files ELSE <<>>
        /\ last_op' = [op |-> "redeploy", result |-> "ok"]
        /\ UNCHANGED <<store, viewVars, utilVars>>

\* the project is pointed at a second database, whose MigrationsHistory
\* table is empty; the files stay where they are
SwitchStore ==
    /\ edits < MaxEdits
    /\ edits' = edits + 1
    /\ store' = <<>>
    /\ last_op' = [op |-> "switch", result |-> "ok"]
    /\ UNCHANGED <<base_dir, dirs, files, viewVars, utilVars>>

-----------------------------------------------------------------------------
(* The synchronisation command as a state machine.                         *)

\* a project whose applications were created with their migrations package,
\* deployed under one of the base directories, with an empty table
SyncInit ==
    /\ base_dir \in BaseDirs
    /\ dirs = ProjectDirs(base_dir) \cup {MigrationsDir(base_dir, app) : app \in ProjectApps}
    /\ files = << [path |-> OsPathJoin(MigrationsDir(base_dir, <<"blog">>), <<InitPy>>),
                   content |-> <<>>],
                  [path |-> OsPathJoin(MigrationsDir(base_dir, <<"shop", "api">>), <<InitPy>>),
                   content |-> <<>>] >>
    /\ store = <<>>
    /\ last_op = [op |-> "none", result |-> "ok"]
    /\ edits = 0

SyncNext == save \/ load \/ initial \/ Edit

SecondStoreNext == save \/ load \/ initial \/ Edit \/ SwitchStore

RedeployNext == save \/ load \/ initial \/ Edit \/ Redeploy

MigrateNext == migrate \/ save \/ load \/ initial \/ Edit

-----------------------------------------------------------------------------
(* mixin/views.py: requests, responses and the transaction.                *)

HTTP_200_OK == 200

HTTP_201_CREATED == 201

HTTP_400_BAD_REQUEST == 400

HTTP_SUCCESS == "Success"

\* views.py uses the name logger in every error branch and never binds it
logger_defined == FALSE

\* an exception leaving the code
Raised(exc) == [kind |-> "raise", exc |-> exc, status |-> 0, result |-> "", data |-> <<>>]

\* BasicResponseMixin.set_response(result, data, status=...)
set_response(result, data, status) ==
    [kind |-> "response", exc |-> "", status |-> status, result |-> result, data |-> data]

\* rest_framework Response(data=..., status=...)
Response(data, status) ==
    [kind |-> "response", exc |-> "", status |-> status, result |-> "", data |-> data]

\* logger.error(...): NameError while the name is unbound
LoggerError(then) == IF logger_defined THEN then ELSE Raised("NameError")

\* a hook's return value (error, reason); "None" stands for None
HookOk == [error |-> "None", reason |-> ""]

HookFail(stage) == [error |-> "error in " \o stage, reason |-> "reason of " \o stage]

HookOutcomes(stage) == {HookOk, HookFail(stage)}

\* `if error:` on a hook's error value
IsError(h) == h.error \notin {"None", ""}

\* the outcome of a handler: the stages that ran, the rollback mark, the
\* response, and whether the perform step wrote to the table
Outcome4(st, rb, r, wrote) == [stages |-> st, rollback |-> rb, resp |-> r, wrote |-> wrote]

\* an error branch of a handler: set_rollback(True); logger.error(...);
\* return self.set_response(error, reason, status=400)
ErrorBranch(st, result, data, wrote) ==
    Outcome4(st, TRUE, LoggerError(set_response(result, data, HTTP_400_BAD_REQUEST)), wrote)

\* transaction.atomic: roll back on an exception or on the rollback mark
AtomicExit(o) == IF o.resp.kind = "raise" \/ o.rollback THEN "rollback" ELSE "commit"

\* the handler named h takes the request that arrived
Handling(h) == txn = "open" /\ req.handler = h

\* the state after a handler ran request q with outcome o
Handled(q, o) ==
    /\ req' = q
    /\ stages' = o.stages
    /\ rollback' = o.rollback
    /\ txn' = AtomicExit(o)
    /\ resp' = o.resp

-----------------------------------------------------------------------------
(* Query-string and body values.                                           *)

\* the value of a query parameter: absent (None), "", a non-numeric text,
\* or the decimal text of an integer
NoneVal == [k |-> "none", n |-> 0]

EmptyStr == [k |-> "empty", n |-> 0]

TextVal == [k |-> "text", n |-> 0]

IntStr(n) == [k |-> "int", n |-> n]

ParamValues == {NoneVal, EmptyStr, TextVal} \cup {IntStr(n) : n \in (-1)..MaxPageArg}

\* bool(value) for None or a string
Truthy(v) == v.k \in {"text", "int"}

\* the exception int(value) raises ("" when it returns)
IntError(v) ==
    IF v.k = "none" THEN "TypeError"
    ELSE IF v.k = "int" THEN ""
    ELSE "ValueError"

\* the names a required-field check may list and a request may carry
FieldNames == {"name", "kind"}

FieldChecks == {<<>>, <<"name">>, <<"name", "kind">>, <<"kind", "name">>}

RECURSIVE FirstMissing(_, _)
\* the first name of the check that the request lacks ("" when none)
FirstMissing(check, present) ==
    IF check = <<>> THEN ""
    ELSE IF Head(check) \notin present THEN Head(check)
    ELSE FirstMissing(Tail(check), present)

-----------------------------------------------------------------------------
(* BasicListModelMixin                                                     *)

\* the filtered result set filter_queryset(get_queryset()) of `total` items
QuerySetOf(total) == [i \in 1..total |-> i]

Min(a, b) == IF a <= b THEN a ELSE b

\* what paginate hands back: an exception ("" when none) or the items
PageReturn(exc, items, total) == [exc |-> exc, items |-> items, total_count |-> total]

\* query_set[start:end] on an evaluated QuerySet: negative bounds are
\* rejected, the rest is the slice of the cached list
SliceQuerySet(qs, start, end) ==
    IF start < 0 \/ end < 0
    THEN PageReturn("NegativeIndexError", <<>>, Len(qs))
    ELSE PageReturn("", SubSeq(qs, start + 1, Min(end, Len(qs))), Len(qs))

\* a faulty variant of PageReset: no reset of an out-of-range page
PageReset_never(start, total) == FALSE

\* `if start >= self._total_count`
PageReset(start, total) == start >= total

\* any([page, limit])
AnyPageLimit(page, limit) == Truthy(page) \/ Truthy(limit)

\* BasicListModelMixin.paginate
paginate(q) ==
    LET query_set == QuerySetOf(q.total)
        total_count == Len(query_set)
    IN  IF q.disable THEN PageReturn("", query_set, total_count)
        ELSE IF ~AnyPageLimit(q.page, q.limit) THEN PageReturn("", query_set, total_count)
        ELSE IF IntError(q.page) # "" THEN PageReturn(IntError(q.page), <<>>, total_count)
        ELSE IF IntError(q.limit) # "" THEN PageReturn(IntError(q.limit), <<>>, total_count)
        ELSE LET start == (q.page.n - 1) * q.limit.n
                 end == q.page.n * q.limit.n
             IN  IF PageReset(start, total_count)
                 THEN SliceQuerySet(query_set, 0, q.limit.n)
                 ELSE SliceQuerySet(query_set, start, end)

\* BasicListModelMixin._pre_process_list
pre_process_list(q) ==
    LET missing == FirstMissing(q.check, q.present)
    IN  IF missing = "" THEN HookOk
        ELSE [error |-> "Query String " \o missing \o " is required",
              reason |-> "query string " \o missing \o " is mandatory"]

\* a faulty variant of set_json: the count is the size of the returned page
set_json_page_count(data, total_count) ==
    [code |-> 0, msg |-> IF Len(data) > 0 THEN "Success" ELSE "no data",
     count |-> Len(data), data |-> data]

\* BasicResponseMixin.set_json
set_json(data, total_count) ==
    [code |-> 0, msg |-> IF Len(data) > 0 THEN "Success" ELSE "no data",
     count |-> total_count, data |-> data]

\* BasicListModelMixin._perform_list: the response, or the exception raised
\* by paginate or by the serializer
perform_list(q) ==
    LET pg == paginate(q)
    IN  IF pg.exc # "" THEN Raised(pg.exc)
        ELSE IF q.serializer_raises THEN Raised("SerializerError")
        ELSE Response(set_json(pg.items, pg.total_count), HTTP_200_OK)

\* BasicListModelMixin.list
list_of(q) ==
    LET pre == pre_process_list(q)
        performed == perform_list(q)
    IN  IF IsError(pre)
        THEN ErrorBranch(<<"pre_process">>, pre.error, pre.reason, FALSE)
        ELSE IF performed.kind = "raise"
        THEN ErrorBranch(<<"pre_process", "perform">>, "Failed to get model list",
                         performed.exc, FALSE)
        ELSE IF IsError(q.post)
        THEN ErrorBranch(<<"pre_process", "perform", "post_process">>,
                         q.post.error, q.post.reason, FALSE)
        ELSE Outcome4(<<"pre_process", "perform", "post_process">>, FALSE, performed, FALSE)

ListRequests ==
    [handler : {"list"}, check : FieldChecks, present : SUBSET FieldNames,
     page : ParamValues, limit : ParamValues, disable : BOOLEAN,
     total : 0..MaxTotal, serializer_raises : BOOLEAN,
     post : HookOutcomes("post_process")]

\* a list request is handled: BasicListModelMixin.list under transaction.atomic
list ==
    LET q == req
        o == list_of(q)
    IN  /\ Handling("list")
        /\  /\ Handled(q, o)
            /\ page_result' = IF "perform" \in {o.stages[i] : i \in 1..Len(o.stages)}
                              THEN paginate(q) ELSE PageReturn("not called", <<>>, 0)
            /\ UNCHANGED <<table, syncVars, utilVars>>

-----------------------------------------------------------------------------
(* BasicBulkCreateModelMixin and BasicCreateModelMixin                     *)

\* BasicBulkCreateModelMixin._pre_process_create
pre_process_create(q) ==
    LET missing == FirstMissing(q.check, q.present)
    IN  IF missing = "" THEN HookOk
        ELSE [error |-> "field " \o missing \o " is required",
              reason |-> "field " \o missing \o " is mandatory"]

\* a faulty variant of PerformAllowed: the perform step ignores the validation
PerformAllowed_always(valid) == TRUE

\* `if not serializer.is_valid(): ... return` guards the perform step
PerformAllowed(valid) == valid

\* the body shared by both create methods, from the pre-validate hook on
create_from_validate(q) ==
    IF IsError(q.validate)
    THEN ErrorBranch(<<"pre_process", "pre_validate">>, q.validate.error, q.validate.reason, FALSE)
    ELSE IF ~PerformAllowed(q.valid)
    THEN ErrorBranch(<<"pre_process", "pre_validate", "is_valid">>,
                     "serializer is invalid", "serializer errors", FALSE)
    ELSE IF q.perform_raises
    THEN ErrorBranch(<<"pre_process", "pre_validate", "is_valid", "perform">>,
                     "Failed to create models", "perform error", FALSE)
    ELSE IF IsError(q.post)
    THEN ErrorBranch(<<"pre_process", "pre_validate", "is_valid", "perform", "post_process">>,
                     q.post.error, q.post.reason, TRUE)
    ELSE Outcome4(<<"pre_process", "pre_validate", "is_valid", "perform", "post_process">>,
                  FALSE, set_response(HTTP_SUCCESS, "created", HTTP_201_CREATED), TRUE)

\* BasicBulkCreateModelMixin.create
bulk_create_of(q) ==
    LET pre == pre_process_create(q)
    IN  IF IsError(pre)
        THEN ErrorBranch(<<"pre_process">>, pre.error, pre.reason, FALSE)
        ELSE create_from_validate(q)

\* BasicCreateModelMixin.create
create_of(q) ==
    IF IsError(q.pre)
    THEN ErrorBranch(<<"pre_process">>, q.pre.error, q.pre.reason, FALSE)
    ELSE create_from_validate(q)

BulkCreateRequests ==
    [handler : {"bulk_create"}, check : FieldChecks, present : SUBSET FieldNames,
     validate : HookOutcomes("pre_validate"), valid : BOOLEAN,
     perform_raises : BOOLEAN, post : HookOutcomes("post_process")]

CreateRequests ==
    [handler : {"create"}, pre : HookOutcomes("pre_process"),
     validate : HookOutcomes("pre_validate"), valid : BOOLEAN,
     perform_raises : BOOLEAN, post : HookOutcomes("post_process")]

\* the primary key the database gives the next row: one above the largest
NextId(t) ==
    IF t = <<>> THEN 1
    ELSE 1 + CHOOSE m \in {t[i].id : i \in 1..Len(t)} : \A i \in 1..Len(t) : t[i].id <= m

\* a new row of the resource table
NewRow(t) == [id |-> NextId(t), is_delete |-> FALSE]

\* the table after the atomic block: the row written by serializer.save()
\* stays only when the transaction commits
TableAfterCreate(t, o) ==
    IF o.wrote /\ AtomicExit(o) = "commit" THEN Append(t, NewRow(t)) ELSE t

\* a bulk create request is handled
BasicBulkCreateModelMixin_create ==
    /\ Handling("bulk_create")
    /\ Handled(req, bulk_create_of(req))
    /\ table' = TableAfterCreate(table, bulk_create_of(req))
    /\ UNCHANGED <<page_result, syncVars, utilVars>>

\* a single create request is handled
BasicCreateModelMixin_create ==
    /\ Handling("create")
    /\ Handled(req, create_of(req))
    /\ table' = TableAfterCreate(table, create_of(req))
    /\ UNCHANGED <<page_result, syncVars, utilVars>>

-----------------------------------------------------------------------------
(* BasicBulkUpdateModelMixin and BasicUpdateModelMixin                     *)

\* what a perform step does: returns normally, returns an error, or raises
PerformOutcomes == {"ok", "error", "raise"}

\* BasicBulkUpdateModelMixin.update
bulk_update_of(q) ==
    IF IsError(q.pre)
    THEN ErrorBranch(<<"pre_process">>, q.pre.error, q.pre.reason, FALSE)
    ELSE IF IsError(q.validate)
    THEN ErrorBranch(<<"pre_process", "validate">>, q.validate.error, q.validate.reason, FALSE)
    ELSE IF q.perform = "raise"
    THEN ErrorBranch(<<"pre_process", "validate", "perform">>,
                     "Update failed", "perform error", FALSE)
    ELSE IF q.perform = "error"
    THEN ErrorBranch(<<"pre_process", "validate", "perform">>,
                     HookFail("perform").error, HookFail("perform").reason, TRUE)
    ELSE IF IsError(q.post)
    THEN ErrorBranch(<<"pre_process", "validate", "perform", "post_process">>,
                     q.post.error, q.post.reason, TRUE)
    ELSE Outcome4(<<"pre_process", "validate", "perform", "post_process">>,
                  FALSE, set_response(HTTP_SUCCESS, "bulk updated", HTTP_200_OK), TRUE)

\* BasicUpdateModelMixin._perform_partial_update: the (error, reason) it
\* returns, or the exception that leaves it; its except branch logs first
perform_partial_update(q) ==
    IF q.perform = "raise"
    THEN IF logger_defined THEN [exc |-> "", hook |-> HookFail("perform")]
         ELSE [exc |-> "NameError", hook |-> HookOk]
    ELSE IF q.perform = "error" THEN [exc |-> "", hook |-> HookFail("perform")]
    ELSE [exc |-> "", hook |-> HookOk]

\* BasicUpdateModelMixin.update, the partial branch and the post-process hook
update_partial(q, before) ==
    LET p == perform_partial_update(q)
        ran == Append(before, "perform")
    IN  IF p.exc # "" THEN Outcome4(ran, FALSE, Raised(p.exc), FALSE)
        ELSE IF IsError(p.hook) THEN ErrorBranch(ran, p.hook.error, p.hook.reason, FALSE)
        ELSE IF IsError(q.post)
        THEN ErrorBranch(Append(ran, "post_process"), q.post.error, q.post.reason, TRUE)
        ELSE Outcome4(Append(ran, "post_process"), FALSE,
                      set_response(HTTP_SUCCESS, "updated", HTTP_200_OK), TRUE)

\* BasicUpdateModelMixin.update, the full-update branch and the post-process hook
update_full(q, before) ==
    LET ran == before \o <<"is_valid", "perform">>
    IN  IF ~q.valid
        THEN ErrorBranch(Append(before, "is_valid"), "Serializer validate failed",
                         "serializer errors", FALSE)
        ELSE IF q.perform = "raise"
        THEN ErrorBranch(ran, "Update failed", "perform error", FALSE)
        ELSE IF q.perform = "error"
        THEN ErrorBranch(ran, HookFail("perform").error, HookFail("perform").reason, TRUE)
        ELSE IF IsError(q.post)
        THEN ErrorBranch(Append(ran, "post_process"), q.post.error, q.post.reason, TRUE)
        ELSE Outcome4(Append(ran, "post_process"), FALSE,
                      set_response(HTTP_SUCCESS, "updated", HTTP_200_OK), TRUE)

\* BasicUpdateModelMixin.update, after get_object
update_from_object(q) ==
    IF q.partial
    THEN update_partial(q, <<"pre_process", "validate", "get_object">>)
    ELSE update_full(q, <<"pre_process", "validate", "get_object">>)

\* BasicUpdateModelMixin.update
update_of(q) ==
    IF IsError(q.pre)
    THEN ErrorBranch(<<"pre_process">>, q.pre.error, q.pre.reason, FALSE)
    ELSE IF IsError(q.validate)
    THEN ErrorBranch(<<"pre_process", "validate">>, q.validate.error, q.validate.reason, FALSE)
    ELSE IF ~q.found
    THEN Outcome4(<<"pre_process", "validate", "get_object">>, FALSE, Raised("Http404"), FALSE)
    ELSE update_from_object(q)

BulkUpdateRequests ==
    [handler : {"bulk_update"}, pre : HookOutcomes("pre_process"),
     validate : HookOutcomes("validate"), perform : PerformOutcomes,
     post : HookOutcomes("post_process")]

UpdateRequests ==
    [handler : {"update"}, pre : HookOutcomes("pre_process"),
     validate : HookOutcomes("validate"), found : BOOLEAN, partial : BOOLEAN,
     valid : BOOLEAN, perform : PerformOutcomes, post : HookOutcomes("post_process")]

\* a bulk update request is handled
BasicBulkUpdateModelMixin_update ==
    /\ Handling("bulk_update")
    /\ Handled(req, bulk_update_of(req))
    /\ UNCHANGED <<page_result, table, syncVars, utilVars>>

\* a single update request is handled
BasicUpdateModelMixin_update ==
    /\ Handling("update")
    /\ Handled(req, update_of(req))
    /\ UNCHANGED <<page_result, table, syncVars, utilVars>>

-----------------------------------------------------------------------------
(* BasicDestroyModelMixin                                                  *)

\* the rows of the table with primary key pk
RowsWithId(t, pk) == {i \in 1..Len(t) : t[i].id = pk}

\* request.query_params.get('logic_delete', False) followed by
\* `if logic_delete:`: the truth value of the parameter's text
LogicDelete(v) == Truthy(v)

\* BasicDestroyModelMixin._perform_delete on the table: the instance is kept
\* with is_delete set, or deleted
perform_delete(t, pk, logic_delete) ==
    IF LogicDelete(logic_delete)
    THEN [i \in 1..Len(t) |-> IF t[i].id = pk THEN [t[i] EXCEPT !.is_delete = TRUE] ELSE t[i]]
    ELSE LET keep(row) == row.id # pk
         IN  SelectSeq(t, keep)

\* BasicDestroyModelMixin.destroy; the branch taken when the perform step
\* returns an error does not mark the transaction for rollback
destroy_of(q, t) ==
    IF IsError(q.pre)
    THEN ErrorBranch(<<"pre_process">>, q.pre.error, q.pre.reason, FALSE)
    ELSE IF IsError(q.validate)
    THEN ErrorBranch(<<"pre_process", "validate">>, q.validate.error, q.validate.reason, FALSE)
    ELSE IF RowsWithId(t, q.pk) = {}
    THEN Outcome4(<<"pre_process", "validate", "get_object">>, FALSE, Raised("Http404"), FALSE)
    ELSE IF q.perform = "raise"
    THEN ErrorBranch(<<"pre_process", "validate", "get_object", "perform">>,
                     "Delete failed", "perform error", FALSE)
    ELSE IF q.perform = "error"
    THEN Outcome4(<<"pre_process", "validate", "get_object", "perform">>, FALSE,
                  LoggerError(set_response(HookFail("perform").error, HookFail("perform").reason,
                                           HTTP_400_BAD_REQUEST)), TRUE)
    ELSE IF IsError(q.post)
    THEN ErrorBranch(<<"pre_process", "validate", "get_object", "perform", "post_process">>,
                     q.post.error, q.post.reason, TRUE)
    ELSE Outcome4(<<"pre_process", "validate", "get_object", "perform", "post_process">>,
                  FALSE, set_response(HTTP_SUCCESS, "deleted", HTTP_200_OK), TRUE)

\* the values of the logic_delete parameter: absent, "" (as in ?logic_delete
\* or ?logic_delete=) or a text
LogicDeleteValues == {NoneVal, EmptyStr, TextVal}

DestroyRequests ==
    [handler : {"destroy"}, pre : HookOutcomes("pre_process"),
     validate : HookOutcomes("validate"), pk : 1..MaxRows,
     logic_delete : LogicDeleteValues, perform : PerformOutcomes,
     post : HookOutcomes("post_process")]

\* the table after the atomic block: what the perform step did to the
\* instance stays only when the transaction commits
TableAfterDestroy(t, q, o) ==
    IF o.wrote /\ AtomicExit(o) = "commit" THEN perform_delete(t, q.pk, q.logic_delete) ELSE t

\* a single destroy request is handled
BasicDestroyModelMixin_destroy ==
    /\ Handling("destroy")
    /\ Handled(req, destroy_of(req, table))
    /\ table' = TableAfterDestroy(table, req, destroy_of(req, table))
    /\ UNCHANGED <<page_result, syncVars, utilVars>>

-----------------------------------------------------------------------------
(* serializers.py: the cache of BasicCommonModelSerializer.                *)

\* keys and salts are texts, modelled as the sequence of their
\* "-"-separated parts: "user-1" is <<"user", "1">>
CacheKeys == { <<"user">>, <<"user", "1">> }

CacheSalts == { <<"2">>, <<"1", "2">> }

\* the objects handed to set_cache: None and MaxObjects other objects
CacheObjects == {"None"} \cup {"obj" \o ToString(n) : n \in 1..MaxObjects}

\* _pack_uniq_key: f"{key}-{salt}"
pack_uniq_key(key, salt) == key \o salt

\* dict.get(k): the value under k, None when k is not in the dictionary
DictGet(d, k) == IF k \in DOMAIN d THEN d[k] ELSE "None"

\* d[k] = v
DictSet(d, k, v) == [x \in DOMAIN d \cup {k} |-> IF x = k THEN v ELSE d[x]]

EmptyDict == [x \in {} |-> "None"]

NoCacheCall == [key |-> <<>>, salt |-> <<>>, is_cache |-> FALSE, cache |-> "None"]

\* BasicCommonModelSerializer.set_cache(key, obj, salt)
set_cache(key, obj, salt) ==
    /\ context' = DictSet(context, pack_uniq_key(key, salt), obj)
    /\ cache_log' = DictSet(cache_log, <<key, salt>>, obj)
    /\ cache_ret' = NoCacheCall
    /\ UNCHANGED <<dispatched, command, cleaned, syncVars, viewVars>>

\* BasicCommonModelSerializer.get_cache(key, salt)
get_cache(key, salt) ==
    LET value == DictGet(context, pack_uniq_key(key, salt))
    IN  /\ cache_ret' = IF value = "None"
                        THEN [key |-> key, salt |-> salt, is_cache |-> FALSE, cache |-> "None"]
                        ELSE [key |-> key, salt |-> salt, is_cache |-> TRUE, cache |-> value]
        /\ UNCHANGED <<context, cache_log, dispatched, command, cleaned, syncVars, viewVars>>

CacheNext ==
    \/ \E key \in CacheKeys, obj \in CacheObjects, salt \in CacheSalts : set_cache(key, obj, salt)
    \/ \E key \in CacheKeys, salt \in CacheSalts : get_cache(key, salt)

-----------------------------------------------------------------------------
(* BasicAuthPermissionViewMixin                                            *)

HTTP_401_UNAUTHORIZED == 401

HTTP_403_FORBIDDEN == 403

http_method_names == {"get", "post", "put", "delete", "patch"}

\* django HttpResponse(content, status=...)
HttpResponse(content, status) == [content |-> content, status |-> status]

\* what an overriding check may return in place of a bool: "None" stands
\* for None
CheckResults == {"True", "False", "None"}

\* the view keeps the mixin's check_authentication
DefaultAuth == [kind |-> "default", is_auth |-> "True", user |-> "None"]

\* check_authentication: the method of the mixin, or a subclass's override
\* that returns (view.auth.is_auth, view.auth.user)
check_authentication(view) ==
    IF view.auth.kind = "default"
    THEN IF ~view.authentication_enable
         THEN [is_auth |-> "True", user |-> "None"]
         ELSE [is_auth |-> "True", user |-> "object"]
    ELSE [is_auth |-> view.auth.is_auth, user |-> view.auth.user]

\* check_permission: the method of the mixin, which grants every request,
\* or a subclass's override that returns view.perm
check_permission(view) == IF view.perm = "default" THEN "True" ELSE view.perm

\* a faulty variant of IsFalse: no result of a check denies the request
IsFalse_never(v) == FALSE

\* `is_auth is False`, `has_perm is False`
IsFalse(v) == v = "False"

\* BasicAuthPermissionViewMixin.dispatch: the calls it makes, the user it
\* sets on the request, and the response
dispatch_of(view, method, handler_status) ==
    LET a == check_authentication(view)
    IN  IF IsFalse(a.is_auth)
        THEN [calls |-> <<"check_authentication">>, user |-> a.user,
              response |-> HttpResponse("Unauthorized", HTTP_401_UNAUTHORIZED)]
        ELSE IF IsFalse(check_permission(view))
        THEN [calls |-> <<"check_authentication", "check_permission">>, user |-> a.user,
              response |-> HttpResponse("No permission", HTTP_403_FORBIDDEN)]
        ELSE [calls |-> <<"check_authentication", "check_permission", method>>,
              user |-> a.user,
              response |-> HttpResponse("handled", handler_status)]

\* the views that mix the class in: with its own checks or overriding them
AuthViews ==
    [authentication_enable : BOOLEAN,
     auth : {DefaultAuth}
                \cup [kind : {"override"}, is_auth : CheckResults, user : {"None", "object"}],
     perm : {"default"} \cup CheckResults]

\* the status the HTTP method handler answers with
HandlerStatuses == {HTTP_200_OK, HTTP_400_BAD_REQUEST, HTTP_403_FORBIDDEN}

\* a request is dispatched to a view
dispatch ==
    \E view \in AuthViews, method \in http_method_names, status \in HandlerStatuses :
        LET d == dispatch_of(view, method, status)
        IN  /\ dispatched' = [called |-> TRUE, view |-> view, method |-> method,
                              calls |-> d.calls, user |-> d.user, response |-> d.response]
            /\ UNCHANGED <<context, cache_log, cache_ret, command, cleaned, syncVars, viewVars>>

DispatchNext == dispatch

-----------------------------------------------------------------------------
(* BasicCommonViewMixin._clear_query_params                                *)

\* a text is the sequence of its pieces: a space, a tab, or a word
Pieces == {" ", "\t", "undefined", "null", "true", "false", "None", "a"}

\* Python values: a str, a bool, None, an int, or the illegal-value marker
PyStr(text) == [t |-> "str", v |-> text]

PyTrue == [t |-> "bool", v |-> <<"True">>]

PyFalse == [t |-> "bool", v |-> <<"False">>]

PyNone == [t |-> "NoneType", v |-> <<>>]

PyInt0 == [t |-> "int", v |-> <<"0">>]

\* params.py defines no QUERY_STRING_ILLEGAL_VALUE
QUERY_STRING_ILLEGAL_VALUE_defined == FALSE

\* the value of params.QUERY_STRING_ILLEGAL_VALUE, were it defined
QUERY_STRING_ILLEGAL_VALUE == [t |-> "marker", v |-> <<>>]

RECURSIVE rstrip(_)
\* value.rstrip(' ')
rstrip(text) ==
    IF text # <<>> /\ Last(text) = " " THEN rstrip(Front(text)) ELSE text

RECURSIVE lstrip(_)
\* value.lstrip(' ')
lstrip(text) ==
    IF text # <<>> /\ Head(text) = " " THEN lstrip(Tail(text)) ELSE text

\* a call that returns value
Returned(value) == [exc |-> "", value |-> value]

\* BasicCommonViewMixin._clear_query_params(value)
clear_query_params(value) ==
    IF value.t # "str" THEN Returned(value)
    ELSE LET text == lstrip(rstrip(value.v))
         IN  IF text \in {<<"undefined">>, <<"null">>}
             THEN IF QUERY_STRING_ILLEGAL_VALUE_defined
                  THEN Returned(QUERY_STRING_ILLEGAL_VALUE)
                  ELSE [exc |-> "AttributeError", value |-> PyNone]
             ELSE IF text = <<"true">> THEN Returned(PyTrue)
             ELSE IF text = <<"false">> THEN Returned(PyFalse)
             ELSE IF text = <<"None">> THEN Returned(PyNone)
             ELSE Returned(PyStr(text))

\* the values a query parameter may hold when it is cleaned
QueryValues ==
    {PyStr(text) : text \in SeqsUpTo(Pieces, MaxStrLen)} \cup {PyTrue, PyFalse, PyNone, PyInt0}

\* the value before it is cleaned
Uncleaned(value) == [called |-> FALSE, arg |-> value, ret |-> Returned(value)]

\* the value is cleaned
BasicCommonViewMixin_clear_query_params ==
    /\ cleaned' = [called |-> TRUE, arg |-> cleaned.arg, ret |-> clear_query_params(cleaned.arg)]
    /\ UNCHANGED <<context, cache_log, cache_ret, dispatched, command, syncVars, viewVars>>

ParamNext == BasicCommonViewMixin_clear_query_params

-----------------------------------------------------------------------------
(* The views as a state machine.                                           *)

NoRequest == [handler |-> "none"]

ViewIdle ==
    /\ req = NoRequest
    /\ stages = <<>>
    /\ rollback = FALSE
    /\ txn = "none"
    /\ resp = Response(<<>>, 0)
    /\ page_result = PageReturn("not called", <<>>, 0)
    /\ table = <<>>

\* nothing cached yet and no view dispatched
CacheIdle ==
    /\ context = EmptyDict
    /\ cache_log = EmptyDict
    /\ cache_ret = NoCacheCall
    /\ dispatched = [called |-> FALSE]

\* nothing cached, no dispatch, the sync command loaded, no parameter cleaned
UtilIdle ==
    /\ CacheIdle
    /\ command = Loaded(SyncCommandClass)
    /\ cleaned = Uncleaned(PyNone)

\* the project the serializers, views and commands run in
ProjectIdle ==
    /\ ViewIdle
    /\ SyncInit
    /\ base_dir = << <<"">>, <<"srv">>, <<"proj">> >>

UtilInit == UtilIdle /\ ProjectIdle

CacheSpec == UtilInit /\ [][CacheNext]_vars

DispatchSpec == UtilInit /\ [][DispatchNext]_vars

\* some command class has been loaded
CommandInit ==
    /\ CacheIdle
    /\ command \in {Loaded(cls) : cls \in CommandClasses}
    /\ cleaned = Uncleaned(PyNone)
    /\ ProjectIdle

CommandSpec == CommandInit /\ [][CommandNext]_vars

\* some query-parameter value is about to be cleaned
ParamInit ==
    /\ CacheIdle
    /\ command = Loaded(SyncCommandClass)
    /\ cleaned \in {Uncleaned(value) : value \in QueryValues}
    /\ ProjectIdle

ParamSpec == ParamInit /\ [][ParamNext]_vars

ViewInit == ViewIdle /\ UtilIdle /\ SyncInit /\ base_dir = << <<"">>, <<"srv">>, <<"proj">> >>

Requests ==
    ListRequests \cup BulkCreateRequests \cup CreateRequests
        \cup BulkUpdateRequests \cup UpdateRequests \cup DestroyRequests

\* a request arrives and its handler is entered inside transaction.atomic;
\* a create is only sent while the table has room
Receive ==
    /\ txn = "none"
    /\ \E q \in Requests :
        /\ q.handler \in {"bulk_create", "create"} => NextId(table) <= MaxRows
        /\ req' = q
    /\ txn' = "open"
    /\ UNCHANGED <<stages, rollback, resp, page_result, table, syncVars, utilVars>>

\* the response has been sent; the view is ready for the next request
Finish ==
    /\ txn \in {"commit", "rollback"}
    /\ req' = NoRequest
    /\ stages' = <<>>
    /\ rollback' = FALSE
    /\ txn' = "none"
    /\ resp' = Response(<<>>, 0)
    /\ page_result' = PageReturn("not called", <<>>, 0)
    /\ UNCHANGED <<table, syncVars, utilVars>>

ViewNext ==
    \/ Receive
    \/ Finish
    \/ list
    \/ BasicBulkCreateModelMixin_create
    \/ BasicCreateModelMixin_create
    \/ BasicBulkUpdateModelMixin_update
    \/ BasicUpdateModelMixin_update
    \/ BasicDestroyModelMixin_destroy

ViewSpec == ViewInit /\ [][ViewNext]_vars

\* the command runs from the shell, with no request in progress
Init == SyncInit /\ ViewIdle /\ UtilIdle

Next == SyncNext

Spec == Init /\ [][Next]_vars

\* the command runs against a first and then a second, empty database
SecondStoreSpec == Init /\ [][SecondStoreNext]_vars

\* the command runs in deployments that share one database
RedeploySpec == Init /\ [][RedeployNext]_vars

\* the commands run from the shell, manage.py migrate among them
MigrateSpec == Init /\ [][MigrateNext]_vars

-----------------------------------------------------------------------------
(* Properties of the synchronisation command.                              *)

\* the applications save and load work on, with their migrations directories
AppDirs == get_app_migrations_dir(base_dir, dirs, files)

AppDirSet == {AppDirs[i] : i \in 1..Len(AppDirs)}

\* the migration files of a directory: every top-level file other than
\* __init__.py and files with extension pyc
MigrationFilesIn(path) ==
    {p \in FilePaths(files) :
        /\ Len(p) = Len(path) + 1
        /\ Front(p) = path
        /\ Last(p) # InitPy
        /\ Last(Last(p)) # "pyc"}

Rows == {store[k] : k \in 1..Len(store)}

SaveCompleted == last_op = [op |-> "save", result |-> "ok"]

LoadCompleted == last_op = [op |-> "load", result |-> "ok"]

\* every migration file of every application has a record under its own key
EveryFileHasRecord ==
    \A ad \in AppDirSet : \A f \in MigrationFilesIn(ad.path) :
        \E r \in Rows : r.app_name = ad.app /\ r.file_name = PathStem(f)

\* the rows after the first n are serialized line lists of the present files
RowsAfterAreOfFiles(n) ==
    \A k \in (n + 1)..Len(store) :
        \E ad \in AppDirSet : \E f \in MigrationFilesIn(ad.path) :
            /\ store[k].app_name = ad.app
            /\ store[k].file_name = PathStem(f)
            /\ store[k].file_content = json_dumps(ReadLines(FileContent(files, f)))

\* C1: after save completes, every migration file of every installed
\* application under the base directory has a record keyed by its
\* (application, file-stem) pair, and every record this save created holds
\* the JSON-serialized list of the file's lines in file order.
C1_SaveRecordsEveryFile ==
    [][ SaveCompleted' =>
          /\ EveryFileHasRecord'
          /\ \A n \in 0..Len(store) : n = Len(store) => RowsAfterAreOfFiles(n)' ]_vars

\* C2: save never modifies or deletes an existing record, even when the file
\* on disk has other lines by now, and creates no second record for a key
\* that exists; a save that directly follows a save changes nothing.
C2_SaveKeepsRecords ==
    [][ last_op'.op = "save" =>
          /\ Len(store') >= Len(store)
          /\ \A k \in 1..Len(store) : store'[k] = store[k]
          /\ \A k \in (Len(store) + 1)..Len(store') :
                Matching(store, store'[k].app_name, store'[k].file_name) = {}
          /\ last_op.op = "save" => store' = store ]_vars

\* a save has just completed although a stored record differs from the file
\* it was read from, which has been rewritten since
C2_Witness ==
    /\ SaveCompleted
    /\ \E ad \in AppDirSet : \E f \in MigrationFilesIn(ad.path) : \E r \in Rows :
          /\ r.app_name = ad.app
          /\ r.file_name = PathStem(f)
          /\ r.file_content # json_dumps(ReadLines(FileContent(files, f)))

\* the first line load writes
HeaderLine == CodingHeader

\* C3: after load completes, every installed application under the base
\* directory has its migrations directory with an __init__.py, and for every
\* stored record of the application the file named <file_name>.py consists of
\* the encoding header line followed by the record's stored lines in order.
C3_LoadRestoresRecords ==
    LoadCompleted =>
        \A ad \in AppDirSet :
            /\ ad.path \in dirs
            /\ OsPathJoin(ad.path, <<InitPy>>) \in FilePaths(files)
            /\ \A r \in Rows : r.app_name = ad.app =>
                  /\ WithPy(r.file_name) \in FilePaths(files)
                  /\ ReadLines(FileContent(files, WithPy(r.file_name)))
                        = <<HeaderLine>> \o json_loads(r.file_content)

AllMigrationFiles == UNION {MigrationFilesIn(ad.path) : ad \in AppDirSet}

\* the store is what a save into an empty store makes of the present files
SavedIntoEmptyStore ==
    /\ SaveCompleted
    /\ store = SaveResult(<<>>, base_dir, dirs, files).store

\* C4: round trip: when the migration files have been saved into an empty
\* store, a load writes back, under the same file name in the same migrations
\* directory, a file that is the encoding header line followed by exactly the
\* original lines.
C4_RoundTrip ==
    [][ (SavedIntoEmptyStore /\ LoadCompleted') =>
          \A f \in AllMigrationFiles :
              /\ f \in FilePaths(files')
              /\ ReadLines(FileContent(files', f))
                    = <<HeaderLine>> \o ReadLines(FileContent(files, f)) ]_vars

\* C5: after any sequence of save, load and initial from an empty store the
\* store never holds two records with the same (app_name, file_name) pair.
C5_NoDuplicateKeys ==
    \A i, j \in 1..Len(store) :
        (store[i].app_name = store[j].app_name /\ store[i].file_name = store[j].file_name)
            => i = j

\* a save has run over a store that already held records of both applications
C5_Witness ==
    /\ last_op.op = "save"
    /\ Len(store) >= 2
    /\ edits = MaxEdits

\* C6: the initial action changes neither the record store nor any file or
\* directory.
C6_InitialIsNoOp ==
    [][ last_op'.op = "initial" => (store' = store /\ dirs' = dirs /\ files' = files) ]_vars

\* initial has run over a store that holds a record
C6_Witness == last_op.op = "initial" /\ store # <<>>

\* the (app_name, file_name) keys save makes of the present migration files
SaveKeys == UNION {{<<ad.app, SaveKey(f)>> : f \in MigrationFilesIn(ad.path)} : ad \in AppDirSet}

\* C19: distinct migration files yield distinct records: after save into an
\* empty store, any two different migration files, of the same or of
\* different applications, wherever the base directory lies, are stored
\* under different (app_name, file_name) keys, so the number of records
\* created equals the number of migration files.
C19_DistinctFilesDistinctRecords ==
    SavedIntoEmptyStore =>
        /\ Cardinality(SaveKeys) = Cardinality(AllMigrationFiles)
        /\ Len(store) = Cardinality(AllMigrationFiles)

\* the files a step created or rewrote with another content
Written ==
    {p \in FilePaths(files') :
        p \notin FilePaths(files) \/ FileContent(files', p) # FileContent(files, p)}

\* C20: every file that load writes for an application lies inside that
\* application's migrations directory under the current base directory,
\* whatever base directory the records were saved from.
C20_LoadWritesInsideMigrationsDir ==
    [][ last_op'.op = "load" =>
          \A p \in Written : \E ad \in AppDirSet :
              /\ Front(p) = ad.path
              /\ ad.path = MigrationsDir(base_dir, CHOOSE app \in ProjectApps : AppPath(app) = ad.app) ]_vars

\* the number of encoding header lines among the lines of a text
HeaderLines(content) ==
    Cardinality({k \in 1..Len(ReadLines(content)) : ReadLines(content)[k] = HeaderLine})

\* C21: the encoding header is never duplicated: after any sequence of save
\* and load, also when files produced by load are saved into a second,
\* initially empty store and loaded again, every migration file written by
\* load holds exactly one '# coding:utf-8' line more than the file originally
\* saved (which holds none), so load after save after load reproduces the
\* content of the first load.
C21_HeaderNotDuplicated ==
    [][ LoadCompleted' =>
          \A p \in FilePaths(files') :
              /\ HeaderLines(FileContent(files', p)) <= 1
              /\ (p \in Written /\ Last(p) # InitPy) => HeaderLines(FileContent(files', p)) = 1 ]_vars

\* C17: the overridden migrate command runs the migration-file save after,
\* and only after, the framework migrate step completed without raising:
\* every successful migrate run is followed by exactly one save, and when
\* the framework migrate raises no record is written to the store.
C17_MigrateThenSave ==
    [][ last_op'.op = "migrate" =>
          IF last_op'.result = "MigrateError"
          THEN store' = store
          ELSE store' = SaveResult(store, base_dir, dirs, files).store ]_vars

-----------------------------------------------------------------------------
(* Properties of the view mixins.                                          *)

\* the handler has returned or raised
Done == txn \in {"commit", "rollback"}

StagesRun == {stages[i] : i \in 1..Len(stages)}

\* the stages of create, in their order
CreateOrder == <<"pre_process", "pre_validate", "is_valid", "perform", "post_process">>

\* whether a stage of the request succeeds, read off the request itself
StageSucceeded(q, stage) ==
    IF stage = "pre_process"
    THEN IF q.handler \in {"list", "bulk_create"}
         THEN \A i \in 1..Len(q.check) : q.check[i] \in q.present
         ELSE q.pre.error = "None"
    ELSE IF stage \in {"pre_validate", "validate"} THEN q.validate.error = "None"
    ELSE IF stage = "get_object" THEN q.found
    ELSE IF stage = "is_valid" THEN q.valid
    ELSE IF stage = "perform"
    THEN IF q.handler = "list"
         THEN paginate(q).exc = "" /\ ~q.serializer_raises
         ELSE IF q.handler \in {"create", "bulk_create"} THEN ~q.perform_raises
         ELSE q.perform = "ok"
    ELSE q.post.error = "None"

\* C7: in create (single and bulk) the stages run in the order pre-process,
\* pre-validate, serializer validation, perform, post-process; a stage runs
\* only if every earlier stage succeeded, so perform is never reached after
\* an error; 201 'Success' is returned only when all five stages succeeded.
C7_CreateStageOrder ==
    (Done /\ req.handler \in {"create", "bulk_create"}) =>
        /\ Len(stages) <= Len(CreateOrder)
        /\ stages = SubSeq(CreateOrder, 1, Len(stages))
        /\ \A k \in 2..Len(stages) : StageSucceeded(req, stages[k - 1])
        /\ (resp.kind = "response" /\ resp.status = HTTP_201_CREATED) =>
              /\ resp.result = "Success"
              /\ stages = CreateOrder
              /\ \A k \in 1..Len(CreateOrder) : StageSucceeded(req, CreateOrder[k])

\* a bulk create went through all five stages and answered 201
C7_Witness ==
    /\ Done
    /\ req.handler = "bulk_create"
    /\ stages = CreateOrder
    /\ resp.status = HTTP_201_CREATED
    /\ table # <<>>

\* the request ended on a failed hook, a failed serializer validation or a
\* perform step that raised or returned an error
ErrorPath ==
    /\ req.handler \in {"list", "bulk_create", "create", "bulk_update", "update"}
    /\ stages # <<>>
    /\ Last(stages) # "get_object"
    /\ ~StageSucceeded(req, Last(stages))

\* C8: in list, create and update (single and bulk) every path on which a
\* hook returns an error, serializer validation fails or the perform step
\* raises ends with the transaction marked for rollback and an HTTP 400
\* response carrying the error and reason; none returns a success status or
\* lets the transaction commit.
C8_ErrorPathsAnswer400 ==
    (Done /\ ErrorPath) =>
        /\ rollback
        /\ txn = "rollback"
        /\ resp.kind = "response"
        /\ resp.status = HTTP_400_BAD_REQUEST
        /\ resp.result # ""

\* page or limit is present in the query string
Supplied(v) == v # NoneVal

PaginateCalled == Done /\ req.handler = "list" /\ page_result.exc # "not called"

\* C9: paginate returns the complete filtered result set whenever pagination
\* is disabled or page and limit are not both supplied (neither, or only one).
C9_FullSetWithoutPagination ==
    (PaginateCalled /\ (req.disable \/ ~(Supplied(req.page) /\ Supplied(req.limit)))) =>
        /\ page_result.exc = ""
        /\ page_result.items = QuerySetOf(req.total)

\* page and limit are integers >= 1 and pagination is enabled
ProperPage ==
    /\ PaginateCalled
    /\ ~req.disable
    /\ req.page.k = "int" /\ req.page.n >= 1
    /\ req.limit.k = "int" /\ req.limit.n >= 1

\* the first position of the page the claim names
ClaimedStart ==
    IF (req.page.n - 1) * req.limit.n < req.total THEN (req.page.n - 1) * req.limit.n ELSE 0

\* C10: with pagination enabled, page >= 1 and limit >= 1, paginate returns
\* the items at positions [(page-1)*limit, page*limit) of the filtered set
\* when (page-1)*limit < total and the positions [0, limit) otherwise: a
\* contiguous run of at most limit items.
C10_PageWindow ==
    ProperPage =>
        /\ page_result.exc = ""
        /\ Len(page_result.items) = Min(req.limit.n, req.total - ClaimedStart)
        /\ Len(page_result.items) <= req.limit.n
        /\ \A i \in 1..Len(page_result.items) : page_result.items[i] = ClaimedStart + i

\* a page beyond the end was asked for and the first page came back
C10_Witness ==
    /\ ProperPage
    /\ req.page.n >= 2
    /\ (req.page.n - 1) * req.limit.n >= req.total
    /\ page_result.items # <<>>

\* a list request was answered with status 200
ListSucceeded ==
    /\ Done
    /\ req.handler = "list"
    /\ resp.kind = "response"
    /\ resp.status = HTTP_200_OK

\* C11: in every successful list response the count field is the number of
\* items of the filtered result set before pagination, whatever page and
\* limit are, and msg is 'Success' exactly when the returned page is not
\* empty.
C11_CountAndMessage ==
    ListSucceeded =>
        /\ resp.data.count = req.total
        /\ resp.data.data = page_result.items
        /\ resp.data.msg = "Success" <=> page_result.items # <<>>

\* a successful list response carries a page that is not empty and shorter
\* than the filtered result set
C11_Witness ==
    /\ ListSucceeded
    /\ resp.data.data # <<>>
    /\ Len(resp.data.data) < req.total

\* a destroy request has just been answered 200 and committed
DestroySucceeded ==
    /\ Handling("destroy")
    /\ txn' = "commit"
    /\ resp'.kind = "response"
    /\ resp'.status = HTTP_200_OK

\* C12: single-resource destroy deletes the instance physically by default;
\* when the query string contains the parameter logic_delete, whatever its
\* value, the instance stays in the table with is_delete set.
C12_LogicDeleteKeepsInstance ==
    [][ DestroySucceeded =>
          IF Supplied(req.logic_delete)
          THEN /\ Len(table') = Len(table)
               /\ \A i \in RowsWithId(table, req.pk) :
                     table'[i].id = req.pk /\ table'[i].is_delete
          ELSE /\ RowsWithId(table', req.pk) = {}
               /\ Len(table') = Len(table) - 1 ]_vars

\* the required-field check of the handler applies to the request
RequiredFieldCheck == Done /\ req.handler \in {"list", "bulk_create"}

\* the positions of the check whose field the request lacks
MissingAt == {i \in 1..Len(req.check) : req.check[i] \notin req.present}

\* the error text that names field m
NamesField(text, m) ==
    text = IF req.handler = "list" THEN "Query String " \o m \o " is required"
           ELSE "field " \o m \o " is required"

\* C15: bulk create answers 400 and creates nothing when a field of
\* data_field_check is absent from the body, list answers 400 without
\* querying when a name of query_string_check is absent from the query
\* string; the error names the first missing field in declaration order;
\* when every listed field is present the check passes.
C15_RequiredFields ==
    RequiredFieldCheck =>
        IF MissingAt = {}
        THEN Len(stages) >= 2
        ELSE /\ stages = <<"pre_process">>
             /\ page_result.exc = "not called"
             /\ resp.kind = "response"
             /\ resp.status = HTTP_400_BAD_REQUEST
             /\ \E i \in MissingAt :
                   /\ \A j \in MissingAt : i <= j
                   /\ NamesField(resp.result, req.check[i])

-----------------------------------------------------------------------------
(* Properties of the serializer cache.                                     *)

\* get_cache has just returned
CacheAnswered == cache_ret.key # <<>>

\* C13: get_cache(key, salt) called after set_cache(key, obj, salt), with no
\* later set_cache on the same (key, salt), returns (True, obj) for every
\* key, salt and object; get_cache for a (key, salt) that was never set
\* returns (False, None).
C13_CacheReturnsLastSet ==
    CacheAnswered =>
        IF <<cache_ret.key, cache_ret.salt>> \in DOMAIN cache_log
        THEN /\ cache_ret.is_cache
             /\ cache_ret.cache = cache_log[<<cache_ret.key, cache_ret.salt>>]
        ELSE /\ ~cache_ret.is_cache
             /\ cache_ret.cache = "None"

-----------------------------------------------------------------------------
(* Properties of dispatch.                                                 *)

Calls == {dispatched.calls[i] : i \in 1..Len(dispatched.calls)}

\* the HTTP method handler was invoked
HandlerRan == dispatched.method \in Calls

\* C14: dispatch checks authentication before permission and invokes the
\* HTTP method handler only when neither check returned False: when
\* check_authentication returns is_auth False the response is 401
\* 'Unauthorized' and neither the permission check nor the handler runs; when
\* check_permission returns False the response is 403 'No permission' and
\* the handler does not run.
C14_AuthBeforePermission ==
    dispatched.called =>
        /\ dispatched.calls[1] = "check_authentication"
        /\ \A i \in 1..Len(dispatched.calls) :
              dispatched.calls[i] = "check_permission" => i = 2
        /\ check_authentication(dispatched.view).is_auth = "False" =>
              /\ dispatched.response = HttpResponse("Unauthorized", 401)
              /\ "check_permission" \notin Calls
              /\ ~HandlerRan
        /\ ("check_permission" \in Calls /\ check_permission(dispatched.view) = "False") =>
              /\ dispatched.response = HttpResponse("No permission", 403)
              /\ ~HandlerRan
        /\ HandlerRan =>
              /\ check_authentication(dispatched.view).is_auth # "False"
              /\ check_permission(dispatched.view) # "False"
              /\ dispatched.calls = <<"check_authentication", "check_permission",
                                      dispatched.method>>

\* an overriding permission check returned False after the authentication
\* check had returned None, and the request was answered 403
C14_Witness ==
    /\ dispatched.called
    /\ check_authentication(dispatched.view).is_auth = "None"
    /\ check_permission(dispatched.view) = "False"
    /\ dispatched.response.status = 403
    /\ dispatched.calls = <<"check_authentication", "check_permission">>

-----------------------------------------------------------------------------
(* Properties of command construction.                                     *)

\* the names of action_choice that the class has no attribute for
UndefinedActions ==
    {command.cls.action_choice[i] : i \in 1..Len(command.cls.action_choice)} \ command.cls.attrs

\* the names the AttributeError carries
NamedActions == {command.result.message[i] : i \in 1..Len(command.result.message)}

\* C16: constructing a single-argument command fails with AttributeError
\* naming every undefined action when at least one name of action_choice has
\* no attribute of that name on the class, and succeeds when all names are
\* defined; the sync command defines save, load and initial.
C16_UndefinedActionsRejected ==
    command.constructed =>
        /\ UndefinedActions # {} =>
              /\ command.result.exc = "AttributeError"
              /\ ~command.result.instance
              /\ NamedActions = UndefinedActions
        /\ UndefinedActions = {} =>
              /\ command.result.exc = ""
              /\ command.result.instance
        /\ command.cls = SyncCommandClass =>
              /\ command.cls.action_choice = <<"save", "load", "initial">>
              /\ command.result.instance

\* a class that lists three actions and defines one of them was rejected
\* with both undefined names
C16_Witness ==
    /\ command.constructed
    /\ Len(command.cls.action_choice) = 3
    /\ Cardinality(UndefinedActions) = 2
    /\ Cardinality(NamedActions) = 2
    /\ command.result.exc = "AttributeError"

-----------------------------------------------------------------------------
(* Properties of _clear_query_params.                                      *)

\* text without its leading and trailing spaces
Trimmed(text) ==
    CHOOSE t \in {SubSeq(text, i, j) : i \in 1..(Len(text) + 1), j \in 0..Len(text)} :
        /\ \E i \in 1..(Len(text) + 1), j \in 0..Len(text) :
              /\ t = SubSeq(text, i, j)
              /\ \A k \in 1..(i - 1) : text[k] = " "
              /\ \A k \in (j + 1)..Len(text) : text[k] = " "
        /\ t # <<>> => (Head(t) # " " /\ Last(t) # " ")

\* what the claim says a trimmed text becomes
Mapped(text) ==
    IF text \in {<<"undefined">>, <<"null">>} THEN QUERY_STRING_ILLEGAL_VALUE
    ELSE IF text = <<"true">> THEN PyTrue
    ELSE IF text = <<"false">> THEN PyFalse
    ELSE IF text = <<"None">> THEN PyNone
    ELSE PyStr(text)

\* C18: _clear_query_params returns every non-string value unchanged, and
\* for a string first removes leading and trailing spaces and then maps
\* 'undefined' and 'null' to the illegal-value marker, 'true' to True,
\* 'false' to False, 'None' to None and any other string to the trimmed
\* string; applying it to its own result returns the same result.
C18_ClearQueryParams ==
    cleaned.called =>
        /\ cleaned.ret.exc = ""
        /\ cleaned.arg.t # "str" => cleaned.ret.value = cleaned.arg
        /\ cleaned.arg.t = "str" => cleaned.ret.value = Mapped(Trimmed(cleaned.arg.v))
        /\ clear_query_params(cleaned.ret.value) = cleaned.ret

====
